---- MODULE Spec2Model ----
(***************************************************************************)
(* Model of the Hosho failed-logon monitor.                                *)
(*                                                                         *)
(*   src/src/listener/logon.rs  LogonVariant, LogonExtractor               *)
(*                              (parse_login_event, get_events)            *)
(*   src/src/main.rs            channels, listener polling loops and the   *)
(*                              select_all! consumption loop               *)
(*                                                                         *)
(* Strings are sequences of one-character strings, so that parsing and     *)
(* formatting are computed character by character.                         *)
(***************************************************************************)
EXTENDS Integers, Sequences, FiniteSets, TLC

VARIABLES
    arg,        \* argument of the pure function applied (SpecVariant, SpecParse, SpecBatch)
    ret,        \* its result, NotCalled before the call
    loopPc,     \* loopPc[l]: listener l's polling task: "spawned", then "sleep"
    started,    \* started[l]: number of poll cycles listener l has invoked
    workers,    \* workers[l][c]: the poll cycle c of listener l
    chan,       \* chan[l]: the events buffered in listener l's channel
    rxAlive,    \* rxAlive[l]: the receiver of channel l has not been dropped
    sent,       \* history: [cycle, event] of every successful send on channel l
    handled,    \* history: the events handed to handle_event from channel l
    overlapped  \* history: two poll cycles of listener l were in flight at once

purevars == <<arg, ret>>
sysvars == <<loopPc, started, workers, chan, rxAlive, sent, handled, overlapped>>
vars == <<arg, ret, loopPc, started, workers, chan, rxAlive, sent, handled, overlapped>>

(***************************************************************************)
(* Bounds of the model.                                                    *)
(***************************************************************************)
MaxLen == 2        \* longest LogonType text given to from_string
MaxFields == 3     \* most <Data> fields of one record
MaxBatch == 3      \* most raw records of one query result (get_events alone)

\* Option<T>
None == [tag |-> "None"]
Some(v) == [tag |-> "Some", val |-> v]

\* Result<T, E>
Ok(v) == [tag |-> "Ok", val |-> v]
Err(e) == [tag |-> "Err", err |-> e]

NotCalled == [tag |-> "NotCalled"]

SeqsUpTo(S, n) == UNION {[1..k -> S] : k \in 0..n}

(***************************************************************************)
(* LogonVariant (logon.rs 162-221)                                         *)
(***************************************************************************)
Digits == <<"0", "1", "2", "3", "4", "5", "6", "7", "8", "9">>

IsDigit(ch) == \E i \in 1..10 : Digits[i] = ch

DigitVal(ch) == (CHOOSE i \in 1..10 : Digits[i] = ch) - 1

\* The value of a sequence of decimal digits, most significant first.
RECURSIVE DigitsValue(_)
DigitsValue(ds) ==
    IF ds = <<>> THEN 0
    ELSE 10 * DigitsValue(SubSeq(ds, 1, Len(ds) - 1)) + DigitVal(ds[Len(ds)])

AllDigits(ds) == \A i \in 1..Len(ds) : IsDigit(ds[i])

\* str::parse::<isize>: an optional sign, then one or more decimal digits and
\* nothing else. The texts of the model have at most MaxLen + 1 characters, far
\* below the 19 digits at which an isize overflows, so the overflow errors of
\* the library are not among the outcomes.
parse_isize(s) ==
    IF s = <<>> THEN Err("Empty")
    ELSE LET signed == s[1] \in {"+", "-"}
             ds == IF signed THEN Tail(s) ELSE s
         IN  IF ds = <<>> \/ ~AllDigits(ds) THEN Err("InvalidDigit")
             ELSE IF s[1] = "-" THEN Ok(0 - DigitsValue(ds))
             ELSE Ok(DigitsValue(ds))

\* str::parse::<u32>: as parse_isize, but a leading '-' is an invalid digit.
parse_u32(s) ==
    IF s = <<>> THEN Err("Empty")
    ELSE LET ds == IF s[1] = "+" THEN Tail(s) ELSE s
         IN  IF ds = <<>> \/ ~AllDigits(ds) THEN Err("InvalidDigit")
             ELSE Ok(DigitsValue(ds))

Unit(t) == [tag |-> t]
Unknown(n) == [tag |-> "Unknown", num |-> n]
Invalid(s) == [tag |-> "Invalid", s |-> s]

\* from_string without its Unknown arm: an unlisted code is taken as invalid.
from_string_no_unknown(s) ==
    LET p == parse_isize(s) IN
    IF p.tag = "Ok" THEN
        CASE p.val = 2 -> Unit("Interactive")
          [] p.val = 3 -> Unit("Network")
          [] p.val = 4 -> Unit("Batch")
          [] p.val = 5 -> Unit("Service")
          [] p.val = 7 -> Unit("Unlock")
          [] p.val = 8 -> Unit("NetworkCleartext")
          [] p.val = 9 -> Unit("NewCredentials")
          [] p.val = 10 -> Unit("RemoteInteractive")
          [] p.val = 11 -> Unit("CachedInteractive")
          [] p.val = 12 -> Unit("CachedRemoteInteractive")
          [] p.val = 13 -> Unit("CachedUnlock")
          [] OTHER -> Invalid(s)
    ELSE Invalid(s)

from_string(s) ==
    LET p == parse_isize(s) IN
    IF p.tag = "Ok" THEN
        CASE p.val = 2 -> Unit("Interactive")
          [] p.val = 3 -> Unit("Network")
          [] p.val = 4 -> Unit("Batch")
          [] p.val = 5 -> Unit("Service")
          [] p.val = 7 -> Unit("Unlock")
          [] p.val = 8 -> Unit("NetworkCleartext")
          [] p.val = 9 -> Unit("NewCredentials")
          [] p.val = 10 -> Unit("RemoteInteractive")
          [] p.val = 11 -> Unit("CachedInteractive")
          [] p.val = 12 -> Unit("CachedRemoteInteractive")
          [] p.val = 13 -> Unit("CachedUnlock")
          [] OTHER -> Unknown(p.val)
    ELSE Invalid(s)

as_number(v) ==
    CASE v.tag = "Interactive" -> 2
      [] v.tag = "Network" -> 3
      [] v.tag = "Batch" -> 4
      [] v.tag = "Service" -> 5
      [] v.tag = "Unlock" -> 7
      [] v.tag = "NetworkCleartext" -> 8
      [] v.tag = "NewCredentials" -> 9
      [] v.tag = "RemoteInteractive" -> 10
      [] v.tag = "CachedInteractive" -> 11
      [] v.tag = "CachedRemoteInteractive" -> 12
      [] v.tag = "CachedUnlock" -> 13
      [] v.tag = "Unknown" -> v.num
      [] v.tag = "Invalid" -> -1

is_valid(v) == v.tag # "Invalid"

(***************************************************************************)
(* Raw records. A record is the XML text of one event, modelled by what    *)
(* the deserializer reads of it: the <System> element with its             *)
(* <TimeCreated SystemTime=..> and <EventRecordID>, and the <EventData>    *)
(* element with its <Data Name=..> children in document order. Elements    *)
(* the structs do not name are ignored by the deserializer and left out.   *)
(***************************************************************************)
TsUtc == <<"2025-07-22T16:25:08Z">>
TsOffset == <<"2025-07-22T18:25:08+02:00">>
TsNoOffset == <<"2025-07-22T16:25:08">>
TsGarbage == <<"yesterday">>
TimeTexts == {TsUtc, TsOffset, TsNoOffset, TsGarbage}

\* DateTime::parse_from_rfc3339 on the creation times of the model: the
\* local wall-clock second of the day and the offset from UTC, or an error
\* when the text is not a date-time with an offset.
parse_from_rfc3339(t) ==
    CASE t = TsUtc -> Ok([local |-> 59108, offset |-> 0])
      [] t = TsOffset -> Ok([local |-> 66308, offset |-> 7200])
      [] t = TsNoOffset -> Err("premature end of input")
      [] OTHER -> Err("input contains invalid characters")

\* DateTime::with_timezone(&Utc): the same instant, as a UTC second of the day.
with_timezone_utc(dt) == [utc |-> dt.local - dt.offset]

NA == <<"N", "/", "A">>
UnknownUser == <<"U", "n", "k", "n", "o", "w", "n">>
Dash == <<"-">>

XmlPrefix == "Failed to parse XML: "
TimestampPrefix == "Failed to parse timestamp: "

DataField(n, v) == [name |-> n, value |-> v]

\* serde_xml_rs::from_str::<SecurityEvent>: every field of the structs is
\* required (none is an Option and none has a default), and EventRecordID
\* must read as a u32.
from_str(xml) ==
    IF xml.system = None THEN Err("missing field System")
    ELSE IF xml.system.val.time_created = None THEN Err("missing field TimeCreated")
    ELSE IF xml.system.val.event_record_id = None THEN Err("missing field EventRecordID")
    ELSE IF parse_u32(xml.system.val.event_record_id.val).tag = "Err"
         THEN Err("invalid digit found in string")
    ELSE IF xml.event_data = None THEN Err("missing field EventData")
    ELSE Ok([system |-> [time_created |-> [system_time |-> xml.system.val.time_created.val],
                         event_record_id |->
                             parse_u32(xml.system.val.event_record_id.val).val],
             event_data |-> [data |-> xml.event_data.val]])

\* The for loop of parse_login_event (logon.rs 79-87) for one of its four
\* names: the value of the last field carrying the name, if any.
RECURSIVE scan_fields(_, _, _)
scan_fields(data, name, acc) ==
    IF data = <<>> THEN acc
    ELSE scan_fields(Tail(data), name,
                     IF Head(data).name = name THEN Some(Head(data).value) ELSE acc)

\* derive_username with the two tests of the domain joined by "and".
derive_username_and(target_username, target_domain) ==
    IF target_username # None /\ target_domain # None THEN
        IF target_domain.val = <<>> /\ target_domain.val = Dash
        THEN target_username.val
        ELSE target_username.val \o <<"@">> \o target_domain.val
    ELSE IF target_username # None THEN target_username.val ELSE UnknownUser

\* logon.rs 89-97
derive_username(target_username, target_domain) ==
    IF target_username # None /\ target_domain # None THEN
        IF target_domain.val = <<>> \/ target_domain.val = Dash
        THEN target_username.val
        ELSE target_username.val \o <<"@">> \o target_domain.val
    ELSE IF target_username # None THEN target_username.val ELSE UnknownUser

\* parse_login_event with a default instant in place of the timestamp failure.
parse_login_event_unchecked_time(xml) ==
    LET de == from_str(xml) IN
    IF de.tag = "Err" THEN Err(<<XmlPrefix, de.err>>)
    ELSE
    LET event == de.val
        parsed == parse_from_rfc3339(event.system.time_created.system_time)
        timestamp == IF parsed.tag = "Err" THEN [utc |-> 0] ELSE with_timezone_utc(parsed.val)
        data == event.event_data.data
        logon_type == scan_fields(data, "LogonType", None)
        ip_address == scan_fields(data, "IpAddress", None)
    IN  Ok([timestamp |-> timestamp,
            event |-> [username |-> derive_username(scan_fields(data, "TargetUserName", None),
                                                    scan_fields(data, "TargetDomainName", None)),
                       source_ip |-> IF ip_address # None THEN ip_address.val ELSE NA,
                       variant |-> IF logon_type # None THEN from_string(logon_type.val)
                                   ELSE Invalid(NA),
                       event_record_id |-> event.system.event_record_id]])

\* LogonExtractor::parse_login_event (logon.rs 25-116)
parse_login_event(xml) ==
    LET de == from_str(xml) IN
    IF de.tag = "Err" THEN Err(<<XmlPrefix, de.err>>)
    ELSE
    LET event == de.val
        parsed == parse_from_rfc3339(event.system.time_created.system_time)
    IN
    IF parsed.tag = "Err" THEN Err(<<TimestampPrefix, parsed.err>>)
    ELSE
    LET timestamp == with_timezone_utc(parsed.val)
        data == event.event_data.data
        target_username == scan_fields(data, "TargetUserName", None)
        target_domain == scan_fields(data, "TargetDomainName", None)
        logon_type == scan_fields(data, "LogonType", None)
        ip_address == scan_fields(data, "IpAddress", None)
        username == derive_username(target_username, target_domain)
        source_ip == IF ip_address # None THEN ip_address.val ELSE NA
        variant == IF logon_type # None THEN from_string(logon_type.val)
                   ELSE Invalid(NA)
    IN  Ok([timestamp |-> timestamp,
            event |-> [username |-> username,
                       source_ip |-> source_ip,
                       variant |-> variant,
                       event_record_id |-> event.system.event_record_id]])

\* Event { details: EventDetails::Login(login_event), timestamp } (logon.rs 147-150)
LoginEvent(parsed) ==
    [details |-> [kind |-> "Login", login |-> parsed.event], timestamp |-> parsed.timestamp]

\* The for loop of get_events (logon.rs 142-156), aborting at the first record
\* that fails to parse.
RECURSIVE collect_abort(_, _)
collect_abort(events, login_events) ==
    IF events = <<>> THEN login_events
    ELSE LET r == parse_login_event(Head(events)) IN
         IF r.tag = "Ok"
         THEN collect_abort(Tail(events), Append(login_events, LoginEvent(r.val)))
         ELSE login_events

\* The for loop of get_events (logon.rs 142-156): login_events after the
\* remaining raw records events have been visited.
RECURSIVE collect(_, _)
collect(events, login_events) ==
    IF events = <<>> THEN login_events
    ELSE LET r == parse_login_event(Head(events)) IN
         collect(Tail(events),
                 IF r.tag = "Ok" THEN Append(login_events, LoginEvent(r.val))
                 ELSE login_events)

\* The for loop of get_events with each event put in front of the list.
RECURSIVE collect_front(_, _)
collect_front(events, login_events) ==
    IF events = <<>> THEN login_events
    ELSE LET r == parse_login_event(Head(events)) IN
         collect_front(Tail(events),
                       IF r.tag = "Ok" THEN <<LoginEvent(r.val)>> \o login_events
                       ELSE login_events)

\* get_events with the loop of collect_front.
get_events_front(query) ==
    IF query.tag = "Err" THEN Err(query.err)
    ELSE Ok(collect_front(query.val, <<>>))

\* get_events with the loop of collect_abort.
get_events_abort(query) ==
    IF query.tag = "Err" THEN Err(query.err)
    ELSE Ok(collect_abort(query.val, <<>>))

\* EventListener::get_events for LogonExtractor (logon.rs 138-159), given the
\* result of query_security_events.
get_events(query) ==
    IF query.tag = "Err" THEN Err(query.err)
    ELSE Ok(collect(query.val, <<>>))

QueryError == "Failed to query Security events: access denied"

(***************************************************************************)
(* Inputs of the pure functions.                                           *)
(***************************************************************************)
Chars == {Digits[i] : i \in 1..10} \cup {"-", "+", "a", " "}

Texts == SeqsUpTo(Chars, MaxLen)

FieldPool ==
    {DataField("TargetUserName", <<"U">>),
     DataField("TargetDomainName", <<>>),
     DataField("TargetDomainName", Dash),
     DataField("TargetDomainName", <<"D">>),
     DataField("LogonType", <<"5">>),
     DataField("LogonType", <<"6">>),
     DataField("LogonType", <<"x">>),
     DataField("IpAddress", <<"1">>),
     DataField("SubjectUserName", <<"S">>)}

\* The <Data> children of an <EventData> element: at least one.
DataLists == SeqsUpTo(FieldPool, MaxFields) \ {<<>>}

RecordIdTexts == {<<"7">>, <<"x">>}

Systems ==
    [time_created : {None} \cup {Some(t) : t \in TimeTexts},
     event_record_id : {None} \cup {Some(t) : t \in RecordIdTexts}]

XmlRecords ==
    [system : {None} \cup {Some(y) : y \in Systems},
     event_data : {None} \cup {Some(d) : d \in DataLists}]

Record(time, id, data) ==
    [system |-> Some([time_created |-> Some(time), event_record_id |-> Some(id)]),
     event_data |-> Some(data)]

\* <Invalid>XML</Invalid> (logon.rs 369-373)
InvalidXml == [system |-> None, event_data |-> None]

SampleRecords ==
    {Record(TsUtc, <<"1">>, <<DataField("TargetUserName", <<"U">>)>>),
     Record(TsOffset, <<"2">>, <<DataField("TargetUserName", <<"V">>),
                                 DataField("LogonType", <<"3">>)>>),
     Record(TsGarbage, <<"3">>, <<DataField("TargetUserName", <<"U">>)>>),
     InvalidXml}

QueryResults == {Err(QueryError)} \cup {Ok(b) : b \in SeqsUpTo(SampleRecords, MaxBatch)}

(***************************************************************************)
(* The monitor (main.rs). Two listeners, each with a bounded channel.      *)
(***************************************************************************)
NumListeners == 2      \* main.rs 25
ChannelCapacity == 2   \* stands for the 100 of mpsc::channel(100), main.rs 23-24
MaxCycles == 2         \* poll cycles a listener starts in the model
MaxQueryLen == 2       \* most raw records a query returns to a poll cycle

Listeners == 1..NumListeners
Cycles == 1..MaxCycles

IdleWorker == [pc |-> "idle", queue |-> <<>>]

SysInit ==
    /\ loopPc = [l \in Listeners |-> "spawned"]
    /\ started = [l \in Listeners |-> 0]
    /\ workers = [l \in Listeners |-> [c \in Cycles |-> IdleWorker]]
    /\ chan = [l \in Listeners |-> <<>>]
    /\ rxAlive = [l \in Listeners |-> TRUE]
    /\ sent = [l \in Listeners |-> <<>>]
    /\ handled = [l \in Listeners |-> <<>>]
    /\ overlapped = [l \in Listeners |-> FALSE]

InFlight(w) == w.pc \in {"query", "send"}

\* The raw record at position j of the result of cycle c's query: its
\* EventRecordID is the two-digit text "cj", so identifiers grow with the
\* cycle and with the position, as the log assigns them.
GoodRecord(c, j) ==
    Record(TsUtc, <<Digits[c + 1], Digits[j + 1]>>, <<DataField("TargetUserName", <<"U">>)>>)

CycleBatches(c) ==
    UNION {{b \in [1..k -> {"good", "bad"}] : TRUE} : k \in 0..MaxQueryLen}

CycleBatch(c, kinds) ==
    [j \in 1..Len(kinds) |-> IF kinds[j] = "good" THEN GoodRecord(c, j) ELSE InvalidXml]

CycleQueryResults(c) ==
    {Err(QueryError)} \cup {Ok(CycleBatch(c, kinds)) : kinds \in CycleBatches(c)}

\* LogonListener::invoke: start poll cycle number started[l] + 1 on a worker
\* and return at once; the cycle runs detached from the polling loop.
invoke(l) ==
    LET c == started[l] + 1 IN
    /\ started' = [started EXCEPT ![l] = c]
    /\ workers' = [workers EXCEPT ![l][c] = [pc |-> "query", queue |-> <<>>]]
    /\ overlapped' = [overlapped EXCEPT
                        ![l] = @ \/ \E d \in Cycles : InFlight(workers[l][d])]

\* The loop leaving (break) once a poll cycle of the listener has failed.
LoopIterateExitOnError(l) ==
    /\ loopPc[l] \in {"spawned", "sleep"}
    /\ IF \E c \in Cycles : workers[l][c].pc \in {"failed", "closed"}
       THEN /\ loopPc' = [loopPc EXCEPT ![l] = "exit"]
            /\ UNCHANGED <<started, workers, overlapped>>
       ELSE /\ started[l] < MaxCycles
            /\ invoke(l)
            /\ loopPc' = [loopPc EXCEPT ![l] = "sleep"]
    /\ UNCHANGED <<arg, ret, chan, rxAlive, sent, handled>>

\* The loop leaving (break) once a poll cycle of any listener has failed.
LoopIterateExitOnAnyError(l) ==
    /\ loopPc[l] \in {"spawned", "sleep"}
    /\ IF \E m \in Listeners : \E c \in Cycles :
             workers[m][c].pc \in {"failed", "closed"}
       THEN /\ loopPc' = [loopPc EXCEPT ![l] = "exit"]
            /\ UNCHANGED <<started, workers, overlapped>>
       ELSE /\ started[l] < MaxCycles
            /\ invoke(l)
            /\ loopPc' = [loopPc EXCEPT ![l] = "sleep"]
    /\ UNCHANGED <<arg, ret, chan, rxAlive, sent, handled>>

\* The loop with the query call made on the thread that drives the
\* scheduler: while a query call is running no task is polled.
LoopIterateOnSchedulerThread(l) ==
    /\ loopPc[l] \in {"spawned", "sleep"}
    /\ started[l] < MaxCycles
    /\ \A m \in Listeners : \A c \in Cycles : workers[m][c].pc # "query"
    /\ invoke(l)
    /\ loopPc' = [loopPc EXCEPT ![l] = "sleep"]
    /\ UNCHANGED <<arg, ret, chan, rxAlive, sent, handled>>

\* The loop awaiting the end of the running poll cycle before the next one.
LoopIterateAwaitsCycle(l) ==
    /\ loopPc[l] \in {"spawned", "sleep"}
    /\ started[l] < MaxCycles
    /\ \A c \in Cycles : ~InFlight(workers[l][c])
    /\ invoke(l)
    /\ loopPc' = [loopPc EXCEPT ![l] = "sleep"]
    /\ UNCHANGED <<arg, ret, chan, rxAlive, sent, handled>>

\* main.rs 29-34: one round of the spawned loop. The task runs (first when it
\* is spawned, then when the one-second sleep ends), calls
\* listener_clone.invoke() and awaits the next sleep.
LoopIterate(l) ==
    /\ loopPc[l] \in {"spawned", "sleep"}
    /\ started[l] < MaxCycles
    /\ invoke(l)
    /\ loopPc' = [loopPc EXCEPT ![l] = "sleep"]
    /\ UNCHANGED <<arg, ret, chan, rxAlive, sent, handled>>

\* Poll cycle, steps 1, 2 and 4: the blocking query returns and its records
\* are normalized. A failed query ends the cycle.
WorkerQuery(l, c) ==
    /\ workers[l][c].pc = "query"
    /\ \E q \in CycleQueryResults(c) :
          LET r == get_events(q) IN
          workers' = [workers EXCEPT ![l][c] =
                         IF r.tag = "Err" THEN [pc |-> "failed", queue |-> <<>>]
                         ELSE IF r.val = <<>> THEN [pc |-> "done", queue |-> <<>>]
                         ELSE [pc |-> "send", queue |-> r.val]]
    /\ UNCHANGED <<arg, ret, loopPc, started, chan, rxAlive, sent, handled,
                   overlapped>>

\* Poll cycle, step 3: take the guard of the listener's sender, send the next
\* event and release the guard. The send waits while the bounded channel is
\* full, so the step is taken when there is room or the channel is closed; on
\* a closed channel the cycle stops and its remaining events are not sent.
WorkerSend(l, c) ==
    /\ workers[l][c].pc = "send"
    /\ rxAlive[l] => Len(chan[l]) < ChannelCapacity
    /\ IF rxAlive[l]
       THEN /\ chan' = [chan EXCEPT ![l] = Append(@, Head(workers[l][c].queue))]
            /\ sent' = [sent EXCEPT ![l] =
                           Append(@, [cycle |-> c, event |-> Head(workers[l][c].queue)])]
            /\ workers' = [workers EXCEPT ![l][c] =
                              [pc |-> IF Tail(@.queue) = <<>> THEN "done" ELSE "send",
                               queue |-> Tail(@.queue)]]
       ELSE /\ workers' = [workers EXCEPT ![l][c].pc = "closed"]
            /\ UNCHANGED <<chan, sent>>
    /\ UNCHANGED <<arg, ret, loopPc, started, rxAlive, handled, overlapped>>

\* main.rs 37-50: handle_event prints the event; the model records it.
handle_event(l, event) == handled' = [handled EXCEPT ![l] = Append(@, event)]

\* The select! round with the handler called in its first branch only.
RecvSkipSecond(l) ==
    /\ rxAlive[l]
    /\ chan[l] # <<>>
    /\ chan' = [chan EXCEPT ![l] = Tail(@)]
    /\ IF l = 1 THEN handle_event(l, Head(chan[l])) ELSE UNCHANGED handled
    /\ UNCHANGED <<arg, ret, loopPc, started, workers, rxAlive, sent, overlapped>>

\* main.rs 9-19 and 52-57: one round of the select! over both receivers, in
\* which the branch of receiver l completes with Some(event).
Recv(l) ==
    /\ rxAlive[l]
    /\ chan[l] # <<>>
    /\ chan' = [chan EXCEPT ![l] = Tail(@)]
    /\ handle_event(l, Head(chan[l]))
    /\ UNCHANGED <<arg, ret, loopPc, started, workers, rxAlive, sent, overlapped>>

\* The consumer drops the receiver of channel l: the channel closes and the
\* events still buffered in it are dropped with it.
DropReceiver(l) ==
    /\ rxAlive[l]
    /\ rxAlive' = [rxAlive EXCEPT ![l] = FALSE]
    /\ chan' = [chan EXCEPT ![l] = <<>>]
    /\ UNCHANGED <<arg, ret, loopPc, started, workers, sent, handled, overlapped>>

Init ==
    /\ arg = NotCalled
    /\ ret = NotCalled
    /\ SysInit

Next ==
    \/ \E l \in Listeners : LoopIterate(l)
    \/ \E l \in Listeners : \E c \in Cycles : WorkerQuery(l, c)
    \/ \E l \in Listeners : \E c \in Cycles : WorkerSend(l, c)
    \/ \E l \in Listeners : Recv(l)

\* The program of main.rs.
Spec == Init /\ [][Next]_vars

\* The runtime polls every spawned task and the main task again and again,
\* timers fire, and select! picks its start branch at random, so no step
\* that stays possible is postponed for ever. The query call itself may
\* never return: no fairness is assumed of WorkerQuery.
Fairness ==
    /\ \A l \in Listeners : WF_vars(LoopIterate(l))
    /\ \A l \in Listeners : \A c \in Cycles : WF_vars(WorkerSend(l, c))
    /\ \A l \in Listeners : WF_vars(Recv(l))

FairSpec == Spec /\ Fairness

NextDrop ==
    \/ Next
    \/ \E l \in Listeners : DropReceiver(l)

\* The listeners of main.rs with a consumer that may drop its receivers.
SpecDrop == Init /\ [][NextDrop]_vars

FairSpecDrop == SpecDrop /\ Fairness

\* The query call of the last poll cycle of the first listener is the one
\* that never returns.
Hangs(l, c) == l = 1 /\ c = MaxCycles

NextHung ==
    \/ \E l \in Listeners : LoopIterate(l)
    \/ \E l \in Listeners : \E c \in Cycles : ~Hangs(l, c) /\ WorkerQuery(l, c)
    \/ \E l \in Listeners : \E c \in Cycles : WorkerSend(l, c)
    \/ \E l \in Listeners : Recv(l)

\* The program of main.rs run against an event log whose query call hangs.
SpecHung == Init /\ [][NextHung]_vars

FairSpecHung == SpecHung /\ Fairness

(***************************************************************************)
(* The pure functions, each applied once to an input of its bounded set.   *)
(***************************************************************************)
CallFromString ==
    /\ ret = NotCalled
    /\ ret' = from_string(arg)
    /\ UNCHANGED <<arg, loopPc, started, workers, chan, rxAlive, sent, handled,
                   overlapped>>

InitVariant ==
    /\ arg \in Texts
    /\ ret = NotCalled
    /\ SysInit

SpecVariant == InitVariant /\ [][CallFromString]_vars

CallParseLoginEvent ==
    /\ ret = NotCalled
    /\ ret' = parse_login_event(arg)
    /\ UNCHANGED <<arg, loopPc, started, workers, chan, rxAlive, sent, handled,
                   overlapped>>

InitParse ==
    /\ arg \in XmlRecords
    /\ ret = NotCalled
    /\ SysInit

SpecParse == InitParse /\ [][CallParseLoginEvent]_vars

CallGetEvents ==
    /\ ret = NotCalled
    /\ ret' = get_events(arg)
    /\ UNCHANGED <<arg, loopPc, started, workers, chan, rxAlive, sent, handled,
                   overlapped>>

InitBatch ==
    /\ arg \in QueryResults
    /\ ret = NotCalled
    /\ SysInit

SpecBatch == InitBatch /\ [][CallGetEvents]_vars

(***************************************************************************)
(* Properties of inputs and results, stated without the operators above.   *)
(***************************************************************************)
DigitChars == {"0", "1", "2", "3", "4", "5", "6", "7", "8", "9"}

PlaceDigit ==
    "0" :> 0 @@ "1" :> 1 @@ "2" :> 2 @@ "3" :> 3 @@ "4" :> 4 @@
    "5" :> 5 @@ "6" :> 6 @@ "7" :> 7 @@ "8" :> 8 @@ "9" :> 9

RECURSIVE Pow10(_)
Pow10(k) == IF k = 0 THEN 1 ELSE 10 * Pow10(k - 1)

RECURSIVE SumOver(_, _)
SumOver(f, S) ==
    IF S = {} THEN 0
    ELSE LET x == CHOOSE y \in S : TRUE IN f[x] + SumOver(f, S \ {x})

\* The digits of a text: the text without its sign.
Unsigned(s) == IF s # <<>> /\ s[1] \in {"+", "-"} THEN SubSeq(s, 2, Len(s)) ELSE s

\* The text is a decimal integer: an optional sign and at least one digit.
IsIntegerText(s) ==
    /\ Unsigned(s) # <<>>
    /\ \A i \in DOMAIN Unsigned(s) : Unsigned(s)[i] \in DigitChars

\* The integer a decimal text denotes, by the place value of its digits.
IntegerOf(s) ==
    LET ds == Unsigned(s)
        place == [i \in DOMAIN ds |-> PlaceDigit[ds[i]] * Pow10(Len(ds) - i)]
        magnitude == SumOver(place, DOMAIN ds)
    IN  IF s[1] = "-" THEN 0 - magnitude ELSE magnitude

KnownCodes == <<2, 3, 4, 5, 7, 8, 9, 10, 11, 12, 13>>

NamedVariants ==
    <<"Interactive", "Network", "Batch", "Service", "Unlock", "NetworkCleartext",
      "NewCredentials", "RemoteInteractive", "CachedInteractive",
      "CachedRemoteInteractive", "CachedUnlock">>

\* The <Data> children of a record, and the field of a name among them: the
\* last child carrying the name.
FieldsOf(xml) == IF xml.event_data = None THEN <<>> ELSE xml.event_data.val

HasField(xml, name) == \E i \in DOMAIN FieldsOf(xml) : FieldsOf(xml)[i].name = name

FieldValue(xml, name) ==
    LET at == {i \in DOMAIN FieldsOf(xml) : FieldsOf(xml)[i].name = name}
        last == CHOOSE i \in at : \A j \in at : j <= i
    IN  FieldsOf(xml)[last].value

\* The record has the structure the extractor expects.
SchemaMatches(xml) ==
    /\ xml.system # None
    /\ xml.system.val.time_created # None
    /\ xml.system.val.event_record_id # None
    /\ LET id == xml.system.val.event_record_id.val
           ds == IF id # <<>> /\ id[1] = "+" THEN SubSeq(id, 2, Len(id)) ELSE id
       IN  ds # <<>> /\ \A i \in DOMAIN ds : ds[i] \in DigitChars
    /\ xml.event_data # None

\* The creation time is a date-time with an offset.
TimeHasOffset(xml) == xml.system.val.time_created.val \in {TsUtc, TsOffset}

\* C1: from_string is total; an integer text of a known code gives the named
\* variant (whose as_number is the code), any other integer text n gives
\* Unknown(n), and a text that is no integer gives Invalid of the text, which
\* is not valid and has the number -1.
C1_FromStringTotal ==
    ret # NotCalled =>
        /\ ret.tag \in {NamedVariants[i] : i \in 1..11} \cup {"Unknown", "Invalid"}
        /\ IF IsIntegerText(arg)
           THEN LET n == IntegerOf(arg) IN
                IF \E i \in 1..11 : KnownCodes[i] = n
                THEN /\ \E i \in 1..11 : KnownCodes[i] = n /\ ret = [tag |-> NamedVariants[i]]
                     /\ as_number(ret) = n
                     /\ is_valid(ret)
                ELSE ret = [tag |-> "Unknown", num |-> n] /\ as_number(ret) = n
           ELSE /\ ret = [tag |-> "Invalid", s |-> arg]
                /\ ~is_valid(ret)
                /\ as_number(ret) = -1

C1_Witness ==
    /\ arg = <<"1", "2">>
    /\ ret = [tag |-> "CachedRemoteInteractive"]

\* C2: the username of a normalized event is "user@domain" when both fields
\* are present and the domain is neither empty nor "-", the bare user when the
\* user is present and the domain is absent, empty or "-", and "Unknown"
\* whenever the user is absent.
C2_UsernameDerivation ==
    (ret # NotCalled /\ ret.tag = "Ok") =>
        LET username == ret.val.event.username IN
        IF ~HasField(arg, "TargetUserName") THEN username = UnknownUser
        ELSE IF /\ HasField(arg, "TargetDomainName")
                /\ FieldValue(arg, "TargetDomainName") \notin {<<>>, <<"-">>}
        THEN username = FieldValue(arg, "TargetUserName") \o <<"@">>
                            \o FieldValue(arg, "TargetDomainName")
        ELSE username = FieldValue(arg, "TargetUserName")

C2_Witness ==
    /\ ret # NotCalled
    /\ ret.tag = "Ok"
    /\ HasField(arg, "TargetUserName")
    /\ HasField(arg, "TargetDomainName")
    /\ ret.val.event.username = <<"U", "@", "D">>

\* A record that carries only a creation time and a TargetUserName field:
\* no record identifier and no other field.
OnlyTimeAndUser(xml) ==
    /\ xml.system # None
    /\ xml.system.val.time_created = Some(TsUtc)
    /\ xml.system.val.event_record_id = None
    /\ xml.event_data # None
    /\ Len(xml.event_data.val) = 1
    /\ xml.event_data.val[1].name = "TargetUserName"

\* C3: a record that carries only a creation time and a TargetUserName field
\* normalizes successfully, with the TargetUserName as username, source_ip
\* "N/A" and variant Invalid("N/A").
C3_MissingFieldsNormalize ==
    (ret # NotCalled /\ OnlyTimeAndUser(arg)) =>
        /\ ret.tag = "Ok"
        /\ ret.val.event.username = arg.event_data.val[1].value
        /\ ret.val.event.source_ip = NA
        /\ ret.val.event.variant = [tag |-> "Invalid", s |-> NA]

\* C4: parse_login_event returns Ok or a classified failure; a record whose
\* structure does not match the schema gives the failure "Failed to parse
\* XML", a structurally valid record whose creation time is no date-time with
\* an offset gives the timestamp failure whatever its other fields hold, and
\* an event is produced for no such record.
C4_ClassifiedFailure ==
    ret # NotCalled =>
        /\ ret.tag \in {"Ok", "Err"}
        /\ ~SchemaMatches(arg) => ret.tag = "Err" /\ ret.err[1] = "Failed to parse XML: "
        /\ (SchemaMatches(arg) /\ ~TimeHasOffset(arg)) =>
               ret.tag = "Err" /\ ret.err[1] = "Failed to parse timestamp: "
        /\ ret.tag = "Ok" => SchemaMatches(arg) /\ TimeHasOffset(arg)

C4_Witness ==
    /\ ret # NotCalled
    /\ SchemaMatches(arg)
    /\ arg.system.val.time_created = Some(TsNoOffset)
    /\ HasField(arg, "TargetUserName")
    /\ HasField(arg, "LogonType")
    /\ ret.tag = "Err"
    /\ ret.err[1] = "Failed to parse timestamp: "

\* The raw records of a batch that normalize, by position.
NormalizingAt(batch) ==
    {i \in DOMAIN batch : SchemaMatches(batch[i]) /\ TimeHasOffset(batch[i])}

\* The k-th smallest element of a set of positions.
KthOf(S, k) == CHOOSE i \in S : Cardinality({j \in S : j <= i}) = k

\* C5: when the query succeeds get_events returns Ok with exactly one event
\* per raw record that normalizes, in the order of those records; a record
\* that fails is skipped and the records after it are still processed.
C5_SkipAndContinue ==
    (ret # NotCalled /\ arg.tag = "Ok") =>
        /\ ret.tag = "Ok"
        /\ Len(ret.val) = Cardinality(NormalizingAt(arg.val))
        /\ \A k \in DOMAIN ret.val :
              LET raw == arg.val[KthOf(NormalizingAt(arg.val), k)] IN
              /\ ret.val[k].details.kind = "Login"
              /\ ret.val[k].details.login.username = FieldValue(raw, "TargetUserName")
              /\ Some(<<Digits[ret.val[k].details.login.event_record_id + 1]>>)
                     = raw.system.val.event_record_id

C5_Witness ==
    /\ ret # NotCalled
    /\ arg.tag = "Ok"
    /\ Len(arg.val) = 3
    /\ arg.val[1] = InvalidXml
    /\ NormalizingAt(arg.val) = {2, 3}
    /\ arg.val[2] # arg.val[3]
    /\ Len(ret.val) = 2

\* The polling loop of listener l has neither ended nor panicked.
LoopRuns(l) == loopPc[l] \in {"spawned", "sleep"}

\* The events of poll cycle c among the sends on channel l.
SentBy(l, c) == SelectSeq(sent[l], LAMBDA m : m.cycle = c)

QueryFailed(l) == \E c \in Cycles : workers[l][c].pc = "failed"

\* C6: a query failure never ends the polling loop: the failed cycle sends
\* no event, and whenever some cycle of a listener has failed the listener
\* goes on to start another poll cycle (up to the MaxCycles of the model).
C6_QueryFailureContained ==
    /\ [](\A l \in Listeners :
            /\ LoopRuns(l)
            /\ \A c \in Cycles : workers[l][c].pc = "failed" => SentBy(l, c) = <<>>)
    /\ \A l \in Listeners : \A n \in 0..(MaxCycles - 1) :
          (QueryFailed(l) /\ started[l] = n) ~> (started[l] > n)

C6_Witness ==
    /\ workers[1][1].pc = "failed"
    /\ ~overlapped[1]
    /\ SentBy(1, 1) = <<>>
    /\ loopPc[1] = "sleep"
    /\ started[1] = 2

SendFailed(l) == \E c \in Cycles : workers[l][c].pc = "closed"

\* C7: a send on a channel whose receiver was dropped does not end the
\* polling loop: the cycle stops for good with its remaining events unsent,
\* nothing more is placed on the closed channel, and the loop is still running
\* and able to start its next poll cycle (up to the MaxCycles of the model).
C7_ClosedChannelContained ==
    /\ [](\A l \in Listeners :
            /\ LoopRuns(l)
            /\ (SendFailed(l) /\ started[l] < MaxCycles) => ENABLED LoopIterate(l))
    /\ [][\A l \in Listeners :
            /\ \A c \in Cycles :
                  workers[l][c].pc = "closed" => workers'[l][c] = workers[l][c]
            /\ ~rxAlive[l] => sent'[l] = sent[l] /\ chan'[l] = <<>>]_vars

C7_Witness ==
    /\ ~rxAlive[1]
    /\ workers[1][1].pc = "closed"
    /\ Len(workers[1][1].queue) = MaxQueryLen
    /\ ~overlapped[1]
    /\ loopPc[1] = "sleep"
    /\ started[1] = 2

\* The identifier of the raw record at position j of cycle c's query result.
RecordId(c, j) == 10 * c + j

ChannelFull(l) == Len(chan[l]) = ChannelCapacity

SendWaits(l) == ChannelFull(l) /\ \E c \in Cycles : workers[l][c].pc = "send"

\* A normalized event of listener l has not reached the consumer yet.
Pending(l) == chan[l] # <<>> \/ \E c \in Cycles : workers[l][c].queue # <<>>

SentEvents(l) == [i \in DOMAIN sent[l] |-> sent[l][i].event]

IdOf(event) == event.details.login.event_record_id

\* C9: the consumer receives the events of a channel in the order they were
\* sent, and when the poll cycles of the listener did not overlap that order
\* is the order of the cycles and, within a cycle, the order in which the
\* query returned the raw records.
C9_ChannelOrder ==
    \A l \in Listeners :
        /\ handled[l] \o chan[l] = SentEvents(l)
        /\ ~overlapped[l] =>
              \A i, j \in DOMAIN sent[l] :
                  i < j => /\ sent[l][i].cycle <= sent[l][j].cycle
                           /\ IdOf(sent[l][i].event) < IdOf(sent[l][j].event)

C9_Witness ==
    /\ ~overlapped[1]
    /\ Len(handled[1]) = 3
    /\ IdOf(handled[1][1]) = RecordId(1, 1)
    /\ IdOf(handled[1][2]) = RecordId(1, 2)
    /\ IdOf(handled[1][3]) = RecordId(2, 2)

Occurrences(events, e) == Cardinality({i \in DOMAIN events : events[i] = e})

\* C10: the consumption loop hands every event placed on either channel to
\* the handler exactly once: at every moment each event sent is either still
\* on its channel or has been handled once, never twice and never neither,
\* and each channel is emptied again and again whatever the other channel
\* holds, so that every event placed on it is eventually handled.
C10_HandledExactlyOnce ==
    /\ [](\A l \in Listeners :
            /\ Len(handled[l]) + Len(chan[l]) = Len(sent[l])
            /\ \A i \in DOMAIN sent[l] :
                  /\ Occurrences(handled[l], sent[l][i].event) <= 1
                  /\ Occurrences(handled[l], sent[l][i].event)
                        + Occurrences(chan[l], sent[l][i].event) = 1)
    /\ \A l \in Listeners : []<>(chan[l] = <<>>)

C10_Witness ==
    /\ Len(handled[1]) >= 1
    /\ Len(handled[2]) >= 1
    /\ chan[1] # <<>>
    /\ chan[2] = <<>>
    /\ Len(sent[2]) = MaxQueryLen

\* Everything the program holds for listener l: its loop, its poll cycles,
\* its channel with both ends, and what was sent and handled on it.
OwnState(l) ==
    <<loopPc[l], started[l], workers[l], chan[l], rxAlive[l], sent[l],
      handled[l], overlapped[l]>>

\* Some cycle of listener l has failed, or its channel is closed.
CycleFailure(l) == QueryFailed(l) \/ SendFailed(l) \/ ~rxAlive[l]

\* The events of poll cycle c of listener l: those it has sent, followed by
\* those it still holds to send.
CycleEvents(l, c) ==
    [i \in DOMAIN SentBy(l, c) |-> SentBy(l, c)[i].event] \o workers[l][c].queue

\* C11: the two listeners are independent. No step of one listener (a loop
\* round, a query returning or failing, a record skipped, a send, a closed
\* channel) changes anything the other listener holds; the events a cycle
\* sends are fixed when its own query has returned, whatever happens
\* elsewhere afterwards; a send on a channel always takes the next event of a
\* cycle of that channel's own listener; and when a cycle of one listener has
\* failed or its channel is closed the other listener's loop still runs and
\* is able to start its next poll cycle (up to the MaxCycles of the model).
C11_ListenersIndependent ==
    /\ [][\A l, m \in Listeners :
            (l # m /\ OwnState(l)' # OwnState(l)) => OwnState(m)' = OwnState(m)]_vars
    /\ [][\A l \in Listeners :
            /\ \A c \in Cycles :
                  workers[l][c].pc \in {"send", "done", "failed", "closed"} =>
                      CycleEvents(l, c)' = CycleEvents(l, c)
            /\ sent'[l] # sent[l] =>
                  \E c \in Cycles :
                      /\ workers[l][c].queue # <<>>
                      /\ workers'[l][c].queue = Tail(workers[l][c].queue)
                      /\ sent'[l] = Append(sent[l],
                                        [cycle |-> c,
                                         event |-> Head(workers[l][c].queue)])]_vars
    /\ [](\A l, m \in Listeners :
            (l # m /\ CycleFailure(l)) =>
                /\ LoopRuns(m)
                /\ started[m] < MaxCycles => ENABLED LoopIterate(m))

C11_Witness ==
    /\ workers[1][1].pc = "failed"
    /\ workers[1][2].pc = "closed"
    /\ ~rxAlive[1]
    /\ rxAlive[2]
    /\ started[2] = MaxCycles
    /\ Len(handled[2]) = MaxCycles * MaxQueryLen

\* A query call is running on behalf of some listener.
QueryRunning == \E l \in Listeners : \E c \in Cycles : workers[l][c].pc = "query"

\* The query call that never returns has been made.
QueryHung == \A l \in Listeners : \A c \in Cycles : Hangs(l, c) => workers[l][c].pc = "query"

\* C12: the blocking query call does not hold up the scheduler. While a
\* query call is running every polling loop is still running and able to
\* start its next poll cycle (up to the MaxCycles of the model) and the
\* consumption loop is able to receive from every channel that holds an
\* event; and with a query call that never returns, in the end every
\* listener has started all its poll cycles and every event of the other
\* cycles has been handled while that call is still running.
C12_QueryOffScheduler ==
    /\ [](QueryRunning =>
            /\ \A m \in Listeners :
                  /\ LoopRuns(m)
                  /\ started[m] < MaxCycles => ENABLED LoopIterate(m)
            /\ \A k \in Listeners : chan[k] # <<>> => ENABLED Recv(k))
    /\ <>[](/\ QueryHung
            /\ \A m \in Listeners : started[m] = MaxCycles
            /\ \A k \in Listeners : ~Pending(k) /\ handled[k] = SentEvents(k))

C12_Witness ==
    /\ QueryHung
    /\ \E l \in Listeners : \E c \in Cycles : Hangs(l, c) /\ handled[l] # <<>>
    /\ \A m \in Listeners : started[m] = MaxCycles
    /\ \A k \in Listeners : ~Pending(k)
    /\ \E k \in Listeners : Len(handled[k]) = MaxCycles * MaxQueryLen

====
